---- MODULE Spec2Model ----
(***************************************************************************)
(* Model of src/python_nodes/pub_test_python/mock_sensor.py: the launch-   *)
(* gated query/reply mock sensor.                                          *)
(*                                                                         *)
(* Three execution contexts share the module globals launch_started and    *)
(* launch_time: the main thread (main, lines 176-232), the launch          *)
(* subscriber callback (launch_handler, 184-190) and the queryable         *)
(* callback (query_handler, 192-215).  The callbacks run on threads of the *)
(* transport, so every read or write of a global is one step of its own.   *)
(*                                                                         *)
(* Units.  Time is counted in ticks of FLIGHT_TIME/2 and length in units   *)
(* of GRAVITY*tick^2/2, so that the floating-point constants of lines      *)
(* 27-37 become the integers below and the formulas of the source can be   *)
(* evaluated as written.  Angles are counted in steps of pi/20.            *)
(***************************************************************************)
EXTENDS Integers, Sequences, FiniteSets, TLC

\* ---------------------------------------------------------------- bounds
MaxClock == 3        \* time.time() takes the values 0..MaxClock
MaxQueries == 1      \* queries delivered to query_handler
MaxLaunchMsgs == 2   \* messages delivered to launch_handler
MaxNoise == 1        \* np.random.normal samples lie in -MaxNoise..MaxNoise

\* ---------------------------------------------- constants (lines 19-40)
\* launch_time = None (line 40) is a value no clock reading takes
None == -1

KnownTypes == {"imu", "gyro", "altitude"}

\* os.environ.get("DUMMY_BROADCAST_TYPE", "imu"): any string of the environment
BroadcastTypes == KnownTypes \cup {"other"}

\* os.environ.get("SENSOR_ID", "0"): the default identifier
SensorIds == {"0"}

\* payloads a publisher can put on the launch topic
LaunchPayloads == {"s", "x"}

GRAVITY == 2

V0_Z == 2

FLIGHT_TIME == (2 * V0_Z) \div GRAVITY

MAX_ALTITUDE == (V0_Z * V0_Z) \div (2 * GRAVITY)

\* covariances.py; only whether a variance is zero matters to Normal, the
\* gyro variances (0.01) are written in the units of get_angular_velocity
NOISE_COVARIANCES ==
    [imu |-> [acceleration_x |-> 100, acceleration_y |-> 100, acceleration_z |-> 100],
     altitude |-> [altitude |-> 1],
     gyro |-> [omega_x |-> 1, omega_y |-> 1, omega_z |-> 1]]

\* ------------------------------------------------ math.sin / math.cos
\* round(100 * sin(k * pi / 20)) for k = 0..39
SinTable ==
    << 0, 16, 31, 45, 59, 71, 81, 89, 95, 99,
       100, 99, 95, 89, 81, 71, 59, 45, 31, 16,
       0, -16, -31, -45, -59, -71, -81, -89, -95, -99,
       -100, -99, -95, -89, -81, -71, -59, -45, -31, -16 >>

sin(a) == SinTable[(a % 40) + 1]

cos(a) == sin(a + 10)

\* ------------------------------------------- trajectory (lines 57-70)
get_altitude(t) == V0_Z * t - (GRAVITY * t * t) \div 2

get_acceleration(t) == <<0, 0, -GRAVITY>>

get_angular_velocity(t) ==
    LET phase == (t * 40) \div FLIGHT_TIME
    IN  << 5 * sin(phase), 3 * cos((phase * 3) \div 2), 8 * sin((phase * 7) \div 10) >>

\* ------------------------------------------------ noise (lines 73-74)
\* the samples np.random.normal(0, std_dev) can return
Normal(variance) == IF variance = 0 THEN {0} ELSE -MaxNoise..MaxNoise

add_noise(value, sample) == value + sample

VARIABLES
    broadcast_type,   \* module global, line 19
    sensor_id,        \* module global, line 25
    launch_started,   \* module global, line 39
    launch_time,      \* module global, line 40
    clock,            \* the value time.time() returns
    mainpc,           \* position of main
    session,          \* "none" | "open" | "closed"
    subscriber,       \* "none" | "declared" | "undeclared"
    queryable,        \* "none" | "declared" | "undeclared"
    lpc,              \* position of launch_handler
    message,          \* local message of launch_handler, line 186
    msgs,             \* launch messages delivered so far
    triggered,        \* some delivered launch message carried the token
    qpc,              \* position of query_handler
    queries,          \* queries delivered so far
    gate,             \* outcome of line 193 for the current query
    q_now,            \* the time.time() of line 196
    elapsed,          \* local elapsed of query_handler
    reading,          \* what get_noisy_* computed for the current query
    replies           \* query.reply calls of the current query

vars == << broadcast_type, sensor_id, launch_started, launch_time, clock,
           mainpc, session, subscriber, queryable, lpc, message, msgs, triggered,
           qpc, queries, gate, q_now, elapsed, reading, replies >>

config == << broadcast_type, sensor_id >>
launchState == << launch_started, launch_time >>
mainVars == << mainpc, session, subscriber, queryable >>
launchVars == << lpc, message, msgs, triggered >>
queryVars == << qpc, queries, gate, q_now, elapsed, reading, replies >>

NoReading == [mode |-> "none", t |-> 0]

\* f"devices/{broadcast_type}_{sensor_id}", line 181
target_topic == << "devices", broadcast_type, sensor_id >>

launch_topic == "launch"

Running == mainpc # "exited"

Init ==
    /\ broadcast_type \in BroadcastTypes
    /\ sensor_id \in SensorIds
    /\ launch_started = FALSE
    /\ launch_time = None
    /\ clock = 0
    /\ mainpc = "open"
    /\ session = "none"
    /\ subscriber = "none"
    /\ queryable = "none"
    /\ lpc = "idle"
    /\ message = ""
    /\ msgs = 0
    /\ triggered = FALSE
    /\ qpc = "idle"
    /\ queries = 0
    /\ gate = "none"
    /\ q_now = 0
    /\ elapsed = 0
    /\ reading = NoReading
    /\ replies = <<>>

\* ------------------------------------------------------------- the clock
Tick ==
    /\ Running
    /\ clock < MaxClock
    /\ clock' = clock + 1
    /\ UNCHANGED << config, launchState, mainVars, launchVars, queryVars >>

\* --------------------------------------------------- main (lines 176-232)
\* line 180: session = zenoh.open(zenoh.Config()); a raise ends the process
OpenSession ==
    /\ mainpc = "open"
    /\ \E ok \in BOOLEAN :
        IF ok THEN session' = "open" /\ mainpc' = "declare_sub"
              ELSE session' = session /\ mainpc' = "exited"
    /\ UNCHANGED << config, launchState, clock, subscriber, queryable,
                    launchVars, queryVars >>

\* line 217: outside the try statement, a raise leaves main at once
DeclareSubscriber ==
    /\ mainpc = "declare_sub"
    /\ \E ok \in BOOLEAN :
        IF ok THEN subscriber' = "declared" /\ mainpc' = "declare_qry"
              ELSE subscriber' = subscriber /\ mainpc' = "exited"
    /\ UNCHANGED << config, launchState, clock, session, queryable,
                    launchVars, queryVars >>

\* line 218: outside the try statement, a raise leaves main at once
DeclareQueryable ==
    /\ mainpc = "declare_qry"
    /\ \E ok \in BOOLEAN :
        IF ok THEN queryable' = "declared" /\ mainpc' = "loop"
              ELSE queryable' = queryable /\ mainpc' = "exited"
    /\ UNCHANGED << config, launchState, clock, session, subscriber,
                    launchVars, queryVars >>

\* Ctrl-C: inside the try (lines 224-228) it is caught and the finally
\* clause runs; before the try (lines 217-222) it propagates out of main
KeyboardInterrupt ==
    /\ mainpc \in {"declare_sub", "declare_qry", "loop"}
    /\ mainpc' = IF mainpc = "loop" THEN "undeclare_sub" ELSE "exited"
    /\ UNCHANGED << config, launchState, clock, session, subscriber, queryable,
                    launchVars, queryVars >>

\* line 230, first statement of the finally clause
UndeclareSubscriber ==
    /\ mainpc = "undeclare_sub"
    /\ \E ok \in BOOLEAN :
        IF ok THEN subscriber' = "undeclared" /\ mainpc' = "undeclare_qry"
              ELSE subscriber' = subscriber /\ mainpc' = "exited"
    /\ UNCHANGED << config, launchState, clock, session, queryable,
                    launchVars, queryVars >>

\* line 231
UndeclareQueryable ==
    /\ mainpc = "undeclare_qry"
    /\ \E ok \in BOOLEAN :
        IF ok THEN queryable' = "undeclared" /\ mainpc' = "close"
              ELSE queryable' = queryable /\ mainpc' = "exited"
    /\ UNCHANGED << config, launchState, clock, session, subscriber,
                    launchVars, queryVars >>

\* line 232
CloseSession ==
    /\ mainpc = "close"
    /\ \E ok \in BOOLEAN :
        session' = IF ok THEN "closed" ELSE session
    /\ mainpc' = "exited"
    /\ UNCHANGED << config, launchState, clock, subscriber, queryable,
                    launchVars, queryVars >>

\* ----------------------------------------- launch_handler (lines 184-190)
\* a handler that arms on every message of the launch topic
IsLaunchTokenAny(payload) == payload \in LaunchPayloads

\* line 187
IsLaunchToken(payload) == payload = "s"

\* lines 186-188: the message is read and, on the token, the flag is stored
LaunchReceive ==
    /\ Running
    /\ subscriber = "declared"
    /\ lpc = "idle"
    /\ msgs < MaxLaunchMsgs
    /\ \E payload \in LaunchPayloads :
        /\ message' = payload
        /\ msgs' = msgs + 1
        /\ IF IsLaunchToken(payload)
           THEN /\ launch_started' = TRUE
                /\ triggered' = TRUE
                /\ lpc' = "set_time"
           ELSE UNCHANGED << launch_started, triggered, lpc >>
    /\ UNCHANGED << config, launch_time, clock, mainVars, queryVars >>

\* line 189: launch_time = time.time()
LaunchSetTime ==
    /\ Running
    /\ lpc = "set_time"
    /\ launch_time' = clock
    /\ lpc' = "idle"
    /\ UNCHANGED << config, launch_started, clock, mainVars, message, msgs,
                    triggered, queryVars >>

\* ------------------------------------ readings and encodings (77-173)
\* lines 77-97; started is the launch_started read at line 82
get_noisy_imu(t, started, n) ==
    IF ~started
    THEN << add_noise(0, n[1]), add_noise(0, n[2]), add_noise(0, n[3]) >>
    ELSE LET a == get_acceleration(t)
         IN  << add_noise(a[1], n[1]), add_noise(a[2], n[2]), add_noise(a[3], n[3]) >>

\* lines 100-117: an IMU table holding one Vec3 struct
serialize_imu(t, started, n) == << "IMU", get_noisy_imu(t, started, n) >>

\* lines 120-129; started is the launch_started read at line 123
get_noisy_altitude(t, started, n) ==
    IF ~started
    THEN add_noise(0, n[1])
    ELSE add_noise(get_altitude(t), n[1])

\* lines 132-142: an Altitude table holding one scalar
serialize_altitude(t, started, n) == << "Altitude", get_noisy_altitude(t, started, n) >>

\* lines 145-158; started is the launch_started read at line 148
get_noisy_gyro(t, started, n) ==
    IF ~started
    THEN << add_noise(0, n[1]), add_noise(0, n[2]), add_noise(0, n[3]) >>
    ELSE LET w == get_angular_velocity(t)
         IN  << add_noise(w[1], n[1]), add_noise(w[2], n[2]), add_noise(w[3], n[3]) >>

\* lines 161-173: a Gyro table holding three scalars
serialize_gyro(t, started, n) ==
    LET g == get_noisy_gyro(t, started, n) IN << "Gyro", g[1], g[2], g[3] >>

\* the samples drawn while one reading of the given type is computed
Samples(type) ==
    CASE type = "imu" ->
            { << a, b, c >> : a \in Normal(NOISE_COVARIANCES.imu.acceleration_x),
                              b \in Normal(NOISE_COVARIANCES.imu.acceleration_y),
                              c \in Normal(NOISE_COVARIANCES.imu.acceleration_z) }
      [] type = "altitude" ->
            { << a >> : a \in Normal(NOISE_COVARIANCES.altitude.altitude) }
      [] type = "gyro" ->
            { << a, b, c >> : a \in Normal(NOISE_COVARIANCES.gyro.omega_x),
                              b \in Normal(NOISE_COVARIANCES.gyro.omega_y),
                              c \in Normal(NOISE_COVARIANCES.gyro.omega_z) }

\* ------------------------------------------ query_handler (lines 192-215)
\* a handler that never takes the flight-complete branch
FlightCompleteNever(e) == FALSE

\* a handler that treats the landing instant as flight complete
FlightCompleteInclusive(e) == e >= FLIGHT_TIME

\* line 197
FlightComplete(e) == e > FLIGHT_TIME

\* query.reply(key, payload)
Reply(key, payload) == Append(replies, [topic |-> key, payload |-> payload])

\* line 193, left operand: launch_started is read
QueryStart ==
    /\ Running
    /\ queryable = "declared"
    /\ qpc = "idle"
    /\ queries < MaxQueries
    /\ queries' = queries + 1
    /\ q_now' = 0
    /\ elapsed' = 0
    /\ reading' = NoReading
    /\ replies' = <<>>
    /\ IF ~launch_started
       THEN gate' = "unarmed" /\ qpc' = "match"
       ELSE gate' = "none" /\ qpc' = "check_time"
    /\ UNCHANGED << config, launchState, clock, mainVars, launchVars >>

\* line 193, right operand: launch_time is read
QueryCheckTime ==
    /\ Running
    /\ qpc = "check_time"
    /\ IF launch_time = None
       THEN gate' = "torn" /\ qpc' = "match"
       ELSE gate' = "armed" /\ qpc' = "read_clock"
    /\ UNCHANGED << config, launchState, clock, mainVars, launchVars,
                    queries, q_now, elapsed, reading, replies >>

\* line 196, left operand: time.time() is called
QueryReadClock ==
    /\ Running
    /\ qpc = "read_clock"
    /\ q_now' = clock
    /\ qpc' = "subtract"
    /\ UNCHANGED << config, launchState, clock, mainVars, launchVars,
                    queries, gate, elapsed, reading, replies >>

\* lines 196-200: launch_time is read, elapsed is computed and tested
QueryElapsed ==
    /\ Running
    /\ qpc = "subtract"
    /\ elapsed' = q_now - launch_time
    /\ IF FlightComplete(elapsed')
       THEN replies' = Reply(target_topic, <<>>) /\ qpc' = "idle"
       ELSE replies' = replies /\ qpc' = "match"
    /\ UNCHANGED << config, launchState, clock, mainVars, launchVars,
                    queries, gate, q_now, reading >>

\* what get_noisy_* returns depends on the launch_started it reads
Measure(started, t) == [mode |-> IF started THEN "flight" ELSE "rest", t |-> t]

\* lines 203-204 and 214
QueryImu ==
    /\ Running
    /\ qpc = "match"
    /\ broadcast_type = "imu"
    /\ \E n \in Samples("imu") :
        replies' = Reply(target_topic, serialize_imu(elapsed, launch_started, n))
    /\ reading' = Measure(launch_started, elapsed)
    /\ qpc' = "idle"
    /\ UNCHANGED << config, launchState, clock, mainVars, launchVars,
                    queries, gate, q_now, elapsed >>

\* lines 205-206 and 214
QueryAltitude ==
    /\ Running
    /\ qpc = "match"
    /\ broadcast_type = "altitude"
    /\ \E n \in Samples("altitude") :
        replies' = Reply(target_topic, serialize_altitude(elapsed, launch_started, n))
    /\ reading' = Measure(launch_started, elapsed)
    /\ qpc' = "idle"
    /\ UNCHANGED << config, launchState, clock, mainVars, launchVars,
                    queries, gate, q_now, elapsed >>

\* lines 207-208 and 214
QueryGyro ==
    /\ Running
    /\ qpc = "match"
    /\ broadcast_type = "gyro"
    /\ \E n \in Samples("gyro") :
        replies' = Reply(target_topic, serialize_gyro(elapsed, launch_started, n))
    /\ reading' = Measure(launch_started, elapsed)
    /\ qpc' = "idle"
    /\ UNCHANGED << config, launchState, clock, mainVars, launchVars,
                    queries, gate, q_now, elapsed >>

\* a default case that returns without replying
QueryUnknownTypeSilent ==
    /\ Running
    /\ qpc = "match"
    /\ broadcast_type \notin KnownTypes
    /\ qpc' = "idle"
    /\ UNCHANGED << config, launchState, clock, mainVars, launchVars,
                    queries, gate, q_now, elapsed, reading, replies >>

\* lines 209-212
QueryUnknownType ==
    /\ Running
    /\ qpc = "match"
    /\ broadcast_type \notin KnownTypes
    /\ replies' = Reply(target_topic, <<>>)
    /\ qpc' = "idle"
    /\ UNCHANGED << config, launchState, clock, mainVars, launchVars,
                    queries, gate, q_now, elapsed, reading >>

Next ==
    \/ Tick
    \/ OpenSession
    \/ DeclareSubscriber
    \/ DeclareQueryable
    \/ KeyboardInterrupt
    \/ UndeclareSubscriber
    \/ UndeclareQueryable
    \/ CloseSession
    \/ LaunchReceive
    \/ LaunchSetTime
    \/ QueryStart
    \/ QueryCheckTime
    \/ QueryReadClock
    \/ QueryElapsed
    \/ QueryImu
    \/ QueryAltitude
    \/ QueryGyro
    \/ QueryUnknownType

Spec == Init /\ [][Next]_vars

TypeOK ==
    /\ launch_started \in BOOLEAN
    /\ launch_time \in {None} \cup (0..MaxClock)
    /\ message \in LaunchPayloads \cup {""}
    /\ gate \in {"none", "unarmed", "torn", "armed"}
    /\ reading.mode \in {"none", "rest", "flight"}

\* the current query has returned from query_handler
Returned == qpc = "idle" /\ queries > 0

EmptyPayload == <<>>

\* value - truth is a sample the noise source can return
IsNoisy(value, truth, variance) == (value - truth) \in Normal(variance)

\* payload is an encoding of the in-flight reading of the sensor type at time t
IsFlightEncoding(type, t, payload) ==
    CASE type = "imu" ->
            /\ Len(payload) = 2
            /\ payload[1] = "IMU"
            /\ IsNoisy(payload[2][1], get_acceleration(t)[1], NOISE_COVARIANCES.imu.acceleration_x)
            /\ IsNoisy(payload[2][2], get_acceleration(t)[2], NOISE_COVARIANCES.imu.acceleration_y)
            /\ IsNoisy(payload[2][3], get_acceleration(t)[3], NOISE_COVARIANCES.imu.acceleration_z)
      [] type = "altitude" ->
            /\ Len(payload) = 2
            /\ payload[1] = "Altitude"
            /\ IsNoisy(payload[2], get_altitude(t), NOISE_COVARIANCES.altitude.altitude)
      [] type = "gyro" ->
            /\ Len(payload) = 4
            /\ payload[1] = "Gyro"
            /\ IsNoisy(payload[2], get_angular_velocity(t)[1], NOISE_COVARIANCES.gyro.omega_x)
            /\ IsNoisy(payload[3], get_angular_velocity(t)[2], NOISE_COVARIANCES.gyro.omega_y)
            /\ IsNoisy(payload[4], get_angular_velocity(t)[3], NOISE_COVARIANCES.gyro.omega_z)

\* ------------------------------------------------------------------ C1
\* C1: once a launch instant t0 has been recorded in launch_time, no later
\* step (in particular no later launch-trigger message) changes it.
ArmIsIdempotent == [][launch_time # None => launch_time' = launch_time]_vars

\* ------------------------------------------------------------------ C2
\* C2: a query that found the gate armed and computed an elapsed time
\* strictly greater than FLIGHT_TIME has returned with the zero-length
\* payload as its only reply and without computing a reading, whatever the
\* configured sensor type.
PostFlightReplyIsEmpty ==
    (gate = "armed" /\ elapsed > FLIGHT_TIME) =>
        /\ qpc = "idle"
        /\ Len(replies) = 1
        /\ replies[1].payload = EmptyPayload
        /\ reading.mode = "none"

PostFlightQueryServed ==
    /\ broadcast_type = "altitude"
    /\ Returned
    /\ gate = "armed"
    /\ elapsed = FLIGHT_TIME + 1
    /\ Len(replies) = 1

\* ------------------------------------------------------------------ C3
\* C3: a query that returned while no launch trigger had yet been received
\* used elapsed 0 and was answered with a non-empty payload holding the
\* pre-launch (noise around zero) reading.
PreLaunchReplyIsNoisyZero ==
    (Returned /\ ~triggered) =>
        /\ elapsed = 0
        /\ Len(replies) = 1
        /\ replies[1].payload # EmptyPayload
        /\ reading = [mode |-> "rest", t |-> 0]

\* ------------------------------------------------------------------ C4
\* C4: a query never observes launch_started set with no launch_time
\* recorded, and a reply carries a trajectory reading only if line 193
\* found the gate armed.
QuerySeesConsistentSnapshot ==
    /\ gate # "torn"
    /\ reading.mode = "flight" => gate = "armed"

\* ------------------------------------------------------------------ C5
\* C5: a process configured with a sensor type outside {imu, gyro,
\* altitude} declares neither subscriber nor queryable and serves no query.
UnknownTypeRejectedAtStartup ==
    broadcast_type \notin KnownTypes =>
        /\ subscriber = "none"
        /\ queryable = "none"
        /\ queries = 0

\* ------------------------------------------------------------------ C6
\* C6: when main has ended after the session was opened, the subscriber and
\* the queryable are not left declared and the session is closed.
HandlesReleasedOnExit ==
    (mainpc = "exited" /\ session # "none") =>
        /\ subscriber # "declared"
        /\ queryable # "declared"
        /\ session = "closed"

\* ------------------------------------------------------------------ C7
\* C7: the elapsed time a query computes is never negative.
ElapsedNeverNegative == elapsed >= 0

\* ------------------------------------------------------------------ C8
\* C8: a step changes launch_started or launch_time only if it is a step of
\* launch_handler handling a message whose payload is the token "s".
LaunchStateFrame ==
    [][(launch_started' # launch_started \/ launch_time' # launch_time) =>
            /\ message' = "s"
            /\ \/ lpc = "idle" /\ lpc' = "set_time"
               \/ lpc = "set_time" /\ lpc' = "idle"
            /\ queryVars' = queryVars]_vars

OtherPayloadAndQueryHandled ==
    /\ message = "x"
    /\ Returned
    /\ ~launch_started
    /\ launch_time = None

\* ------------------------------------------------------------------ C9
\* C9: for a recognized sensor type, a query that found the gate armed and
\* computed 0 <= elapsed <= FLIGHT_TIME has returned one reply, whose
\* payload is a non-empty encoding of that type's in-flight reading at
\* that elapsed time.
InFlightReplyIsReading ==
    (Returned /\ broadcast_type \in KnownTypes /\ gate = "armed"
        /\ 0 <= elapsed /\ elapsed <= FLIGHT_TIME) =>
        /\ Len(replies) = 1
        /\ replies[1].payload # EmptyPayload
        /\ IsFlightEncoding(broadcast_type, elapsed, replies[1].payload)
        /\ reading = [mode |-> "flight", t |-> elapsed]

BoundaryQueryServed ==
    /\ broadcast_type = "gyro"
    /\ Returned
    /\ gate = "armed"
    /\ elapsed = FLIGHT_TIME
    /\ Len(replies) = 1
    /\ replies[1].payload # EmptyPayload

\* ----------------------------------------------------------------- C10
\* C10: query_handler never replies twice to one query, and when it has
\* returned it has replied exactly once, on devices/<type>_<id>.
ExactlyOneReply ==
    /\ Len(replies) <= 1
    /\ Returned =>
        /\ Len(replies) = 1
        /\ replies[1].topic = << "devices", broadcast_type, sensor_id >>

UnknownTypeQueryReturned ==
    /\ broadcast_type = "other"
    /\ Returned
    /\ gate = "armed"
    /\ elapsed <= FLIGHT_TIME
    /\ Len(replies) = 1

====
